---- MODULE Spec2Model ----
(***************************************************************************)
(* A model of watch (MHmorgan/watch): the polling loop of main, the        *)
(* WatchCommand (run / hasChanged / output), the WatchPaths (NewWatchPaths *)
(* / update / hasChanged) and the two screens.  Byte strings are sequences *)
(* of integers 0..255; fingerprints are computed with the Adler-32         *)
(* recurrence that hash/adler32 implements.                                *)
(***************************************************************************)
EXTENDS Integers, Sequences, FiniteSets, TLC

VARIABLES
    help,       \* flag -h
    nargs,      \* flag.NArg()
    scrType,    \* flag -s
    pathStr,    \* flag -p, a sequence of characters
    fs,         \* the filesystem: name -> contents, Absent or IsDir
    pc,         \* position of main: start, sleep, update, check, run,
                \* classify, redraw, exited
    exitCode,   \* the process's exit code, NotExited while it runs
    paths,      \* *WatchPaths: [nil, files, dirs, prev, hash]
    cmd,        \* WatchCommand: [buf, prev, err]
    first,      \* main's local variable first
    screen,     \* the selected WatchScreen: [type, name, status]
    frame,      \* the last frame printed by screen.Write, NoFrame before
    wrote,      \* whether the current cycle has printed a frame
    prevOut,    \* history: the buffer that the latest run() cleared
    runs,       \* history: number of run() calls so far, saturating at 2
    fed,        \* history: the file contents the latest update() hashed,
                \* NoFeed before the first update()
    fedPrev,    \* history: the file contents the update() before it hashed
    setups,     \* history: number of calls of screen.Setup()
    teardowns,  \* history: number of calls of screen.Teardown()
    ran,        \* history: what cmd.Run() returned in the latest run() and
                \* whether ctx.Err() was non-nil after it
    files,      \* update()'s channel files: [buf, closed]
    prod,       \* update()'s goroutine: [pc, dirs, names, held]
    sent,       \* history: the paths this update()'s goroutine has sent
    got,        \* history: the paths this update()'s loop has received
    edited,     \* history: number of changes of the filesystem during this
                \* update()
    updates     \* history: number of update() calls begun, in PipeSpec

\* The calls of the screen's hooks.
hooks == <<setups, teardowns>>

\* The state of the pipeline inside update().
pipe == <<files, prod, sent, got, edited, updates>>

vars == <<help, nargs, scrType, pathStr, fs, pc, exitCode, paths, cmd,
          first, screen, frame, wrote, prevOut, runs, fed, fedPrev,
          setups, teardowns, ran, files, prod, sent, got, edited, updates>>

-----------------------------------------------------------------------------
(* Fingerprinter: hash/adler32 *)

\* The largest prime below 2^16, the modulus of Adler-32.
AdlerMod == 65521

\* A digest is the uint32 b * 2^16 + a, kept as its two 16-bit halves.
\* The uint32 zero, the zero value of the prev fields.
ZeroSum == [a |-> 0, b |-> 0]

\* adler32.New() and hash.Reset(): the digest of no data, the uint32 1.
AdlerInit == [a |-> 1, b |-> 0]

\* One byte added to digest d: a += byte, b += a, both modulo AdlerMod.
AdlerByte(d, x) ==
    LET a == (d.a + x) % AdlerMod
    IN  [a |-> a, b |-> (d.b + a) % AdlerMod]

\* hash.Write(p) on digest d: the bytes of p are added in order, those of the
\* first half of p and then those of the second.  (The test of mid, which
\* always holds, makes TLC compute the first half before it descends into the
\* second, so that the depth of the evaluation is logarithmic in Len(p).)
RECURSIVE AdlerWrite(_, _)
AdlerWrite(d, p) ==
    IF p = <<>> THEN d
    ELSE IF Len(p) = 1 THEN AdlerByte(d, p[1])
    ELSE LET h == Len(p) \div 2
             mid == AdlerWrite(d, SubSeq(p, 1, h))
         IN  IF mid.a < AdlerMod
             THEN AdlerWrite(mid, SubSeq(p, h + 1, Len(p)))
             ELSE mid

\* adler32.Checksum(data)
Checksum(data) == AdlerWrite(AdlerInit, data)

-----------------------------------------------------------------------------
(* Strings *)

\* unicode.IsSpace on the ASCII bytes: \t \n \v \f \r and space.
IsSpace(b) == b \in {9, 10, 11, 12, 13, 32}

\* strings.TrimSpace on a byte string.
RECURSIVE TrimLeft(_)
TrimLeft(s) ==
    IF s # <<>> /\ IsSpace(Head(s)) THEN TrimLeft(Tail(s)) ELSE s

RECURSIVE TrimRight(_)
TrimRight(s) ==
    IF s # <<>> /\ IsSpace(s[Len(s)])
    THEN TrimRight(SubSeq(s, 1, Len(s) - 1)) ELSE s

TrimSpace(s) == TrimRight(TrimLeft(s))

\* strings.Fields on a sequence of one-character strings: the maximal runs
\* of non-space characters, in order.
RECURSIVE FieldsFrom(_, _, _)
FieldsFrom(s, cur, acc) ==
    IF s = <<>> THEN (IF cur = <<>> THEN acc ELSE Append(acc, cur))
    ELSE IF Head(s) = " "
         THEN FieldsFrom(Tail(s), <<>>,
                         IF cur = <<>> THEN acc ELSE Append(acc, cur))
         ELSE FieldsFrom(Tail(s), Append(cur, Head(s)), acc)

Fields(s) == FieldsFrom(s, <<>>, <<>>)

-----------------------------------------------------------------------------
(* The environment: the filesystem and the watched command *)

\* Path names are sequences of characters, as strings.Fields returns them.
FileTok == <<"f">>
DirTok  == <<"d">>
ChildA  == <<"d", "/", "a">>
ChildB  == <<"d", "/", "b">>
Names   == {FileTok, DirTok, ChildA, ChildB}

\* A name that holds no file and a name that holds a directory; both differ
\* from every byte string.
Absent == <<-1>>
IsDir  == <<-2>>

\* 257 bytes, all 255 but two, whose Adler-32 digest is that of no data: the
\* bytes sum to AdlerMod and their running sums to 0 modulo it.
Filler == [i \in 1..257 |-> IF i = 108 THEN 242 ELSE IF i = 145 THEN 254
                                                  ELSE 255]

\* The contents a regular file may hold.  The second and third have the same
\* Adler-32 digest (a = 3, b = 7).
Contents == {<<>>, <<0, 2, 0>>, <<1, 0, 1>>}

\* What a name of the filesystem may hold.
Holds(n) ==
    IF n = DirTok THEN {IsDir, Absent}
    ELSE IF n = ChildB THEN {<<>>, <<0, 2, 0>>, Absent}
    ELSE IF n = FileTok THEN Contents \cup {Filler, Absent}
    ELSE Contents \cup {Absent}

\* The entries of a directory in the order filepath.Walk visits them
\* (lexical order).
Entries(dir) == IF dir = DirTok THEN <<ChildA, ChildB>> ELSE <<>>

\* os.Stat(p): "err", "dir" or "file".
Stat(f, p) ==
    IF p \notin DOMAIN f \/ f[p] = Absent THEN "err"
    ELSE IF f[p] = IsDir THEN "dir" ELSE "file"

\* The longest output a watched command prints.
MaxOut == 2

\* The bytes a watched command prints: a blank and "A".
OutBytes == {32, 65}

\* The byte strings a watched command may print.
Outputs == UNION {[1..n -> OutBytes] : n \in 0..MaxOut}

\* The non-zero exit codes a watched command may return.
ExitCodes == {1, 3}

\* The values of cmd.err.
NilErr           == [kind |-> "nil"]
ExitError(n)     == [kind |-> "ExitError", code |-> n]
DeadlineExceeded == [kind |-> "DeadlineExceeded"]
OtherErr         == [kind |-> "other"]

\* What cmd.Run() may return.
RunErrs == {NilErr, OtherErr} \cup {ExitError(n) : n \in ExitCodes}

\* The watched commands: "echo" prints "A" and succeeds whenever it is run,
\* "fill" succeeds and prints Filler or nothing, "job" may print any of
\* Outputs and end in any way.
CmdNames == {"echo", "fill", "job"}
Prints(name) ==
    IF name = "echo" THEN {<<65>>}
    ELSE IF name = "fill" THEN {<<>>, Filler}
    ELSE Outputs
Returns(name) == IF name = "job" THEN RunErrs ELSE {NilErr}

\* The command lines that are tried: help, a missing command, an unknown
\* screen (alone, with no command, with a path that does not exist) and a
\* path that does not exist; "job" with no paths on both
\* screens; "fill" with no paths and "echo" with watched paths on the plain
\* screen.
Flags(h, n, s, p, c) ==
    [help |-> h, nargs |-> n, scrType |-> s, pathStr |-> p, name |-> c]

Tried ==
    {Flags(TRUE, 1, "plain", <<>>, "job"),
     Flags(FALSE, 0, "plain", <<>>, "job"),
     Flags(FALSE, 1, "bogus", <<>>, "job"),
     Flags(FALSE, 0, "bogus", <<>>, "job"),
     Flags(FALSE, 1, "bogus", <<"x">>, "job"),
     Flags(FALSE, 1, "plain", <<"x">>, "job"),
     Flags(FALSE, 1, "plain", <<>>, "job"),
     Flags(FALSE, 1, "vt100", <<>>, "job"),
     Flags(FALSE, 1, "plain", <<>>, "fill")}
    \cup {Flags(FALSE, 1, "plain", p, "echo") :
            p \in { <<" ">>, <<"f">>, <<"d">> }}

NotExited == -1
NoFrame   == [header |-> <<>>, body |-> Absent]
NoScreen  == [type |-> "none", name |-> "", status |-> <<>>]
NoFeed    == <<Absent>>
NilPaths  == [nil |-> TRUE, files |-> <<>>, dirs |-> <<>>,
              prev |-> ZeroSum, hash |-> ZeroSum]

\* Before the first run(): cmd.Run() has returned nothing.
NotRun == [err |-> NilErr, ctxDone |-> FALSE]

\* Outside update(): no channel and no goroutine.
NoChan == [buf |-> <<>>, closed |-> FALSE]
Idle   == [pc |-> "idle", dirs |-> <<>>, names |-> <<>>, held |-> <<>>]

-----------------------------------------------------------------------------
(* WatchCommand *)

\* hasChanged() on the trimmed output() instead of the raw buffer.
CmdHasChangedTrimmed(c) == c.prev # Checksum(TrimSpace(c.buf))

\* (c *WatchCommand) hasChanged()
CmdHasChanged(c) == c.prev # Checksum(c.buf)

\* run() without its snapshot: prev keeps its value.
CmdRunNoSnapshot(c, out, e, ctxDone) ==
    [name |-> c.name,
     buf  |-> out,
     prev |-> c.prev,
     err  |-> IF ctxDone THEN DeadlineExceeded ELSE e]

\* run() taking its snapshot after the buffer is reset.
CmdRunResetFirst(c, out, e, ctxDone) ==
    [name |-> c.name,
     buf  |-> out,
     prev |-> Checksum(<<>>),
     err  |-> IF ctxDone THEN DeadlineExceeded ELSE e]

\* run() without the test of ctx.Err(): err is what cmd.Run() returned.
CmdRunNoCtx(c, out, e, ctxDone) ==
    [name |-> c.name,
     buf  |-> out,
     prev |-> Checksum(c.buf),
     err  |-> e]

\* (c *WatchCommand) run(): the process prints out and cmd.Run() returns e;
\* ctxDone tells whether ctx.Err() is non-nil when run() reads it.
CmdRun(c, out, e, ctxDone) ==
    [name |-> c.name,
     buf  |-> out,
     prev |-> Checksum(c.buf),
     err  |-> IF ctxDone THEN DeadlineExceeded ELSE e]

\* (c *WatchCommand) output()
CmdOutput(c) == TrimSpace(c.buf)

-----------------------------------------------------------------------------
(* WatchPaths *)

\* NewWatchPaths(pathStr) when every path can be stat'ed.
NewWatchPaths(str, f) ==
    IF str = <<>> THEN NilPaths
    ELSE LET IsFile(p) == Stat(f, p) = "file"
             IsDirectory(p) == Stat(f, p) = "dir"
         IN  [nil   |-> FALSE,
              files |-> SelectSeq(Fields(str), IsFile),
              dirs  |-> SelectSeq(Fields(str), IsDirectory),
              prev  |-> ZeroSum,
              hash  |-> AdlerInit]

\* Whether NewWatchPaths bails: some path of the list cannot be stat'ed.
BadPath(str, f) ==
    \E i \in 1..Len(Fields(str)) : Stat(f, Fields(str)[i]) = "err"

\* hasChanged() without the test for a nil receiver.
PathsHasChangedNoNil(p) == p.prev # p.hash

\* (p *WatchPaths) hasChanged()
PathsHasChanged(p) == IF p.nil THEN TRUE ELSE p.prev # p.hash

\* The regular files filepath.Walk reports under dir, in its order.
Walk(f, dir) ==
    LET Regular(n) == Stat(f, n) = "file"
    IN  SelectSeq(Entries(dir), Regular)

\* The paths the goroutine of update() sends: the explicit files, then the
\* walk of each directory.
RECURSIVE WalkAll(_, _)
WalkAll(f, dirs) ==
    IF dirs = <<>> THEN <<>> ELSE Walk(f, Head(dirs)) \o WalkAll(f, Tail(dirs))

Enumerate(p, f) == p.files \o WalkAll(f, p.dirs)

\* Whether update() bails: the root of a walk is gone, or a file to read is.
UpdateFails(p, f) ==
    \/ \E i \in 1..Len(p.dirs) : Stat(f, p.dirs[i]) # "dir"
    \/ \E i \in 1..Len(p.files) : Stat(f, p.files[i]) # "file"

\* The contents os.ReadFile returns for each path of a list.
ReadAll(f, list) == [i \in 1..Len(list) |-> f[list[i]]]

\* p.hash.Write(data) for each element of a list of contents, in order.
RECURSIVE Feed(_, _)
Feed(d, datas) ==
    IF datas = <<>> THEN d ELSE Feed(AdlerWrite(d, Head(datas)), Tail(datas))

\* update() without p.hash.Reset(): the accumulator keeps growing.
PathsUpdateNoReset(p, f) ==
    [p EXCEPT !.prev = p.hash,
              !.hash = Feed(p.hash, ReadAll(f, Enumerate(p, f)))]

\* update() without p.prev = p.hash.Sum32(): prev keeps its value.
PathsUpdateNoPrev(p, f) ==
    [p EXCEPT !.hash = Feed(AdlerInit, ReadAll(f, Enumerate(p, f)))]

\* (p *WatchPaths) update() on a non-nil p, when nothing fails.
PathsUpdate(p, f) ==
    [p EXCEPT !.prev = p.hash,
              !.hash = Feed(AdlerInit, ReadAll(f, Enumerate(p, f)))]

-----------------------------------------------------------------------------
(* Screens *)

\* A registry that knows every screen type that is tried.
screensAny == {"plain", "vt100", "bogus"}

\* The registry of screens.
screens == {"plain", "vt100"}

\* timestamp(): the time of day, which the model does not track.
Timestamp == "15:04:05"

\* fmt.Sprintf("exit code %v", n), "no output" and "" as lists of pieces.
StatusExit(n) == <<"exit code ", ToString(n)>>
StatusNoOutput == <<"no output">>
StatusNone == <<>>

\* A Write whose header leaves the status out.
ScreenWriteNoStatus(s, b) ==
    LET open == IF s.type = "vt100"
                THEN <<"CLEAR", "BOLD", "WATCH ", s.name, "RESET", " [",
                       Timestamp>>
                ELSE <<"WATCH ", s.name, " [", Timestamp>>
    IN  [header |-> open \o <<"]">>, body |-> b]

\* plainScreen.Write and vt100Screen.Write: the header, then the bytes.
ScreenWrite(s, b) ==
    LET open == IF s.type = "vt100"
                THEN <<"CLEAR", "BOLD", "WATCH ", s.name, "RESET", " [",
                       Timestamp>>
                ELSE <<"WATCH ", s.name, " [", Timestamp>>
        stat == IF s.status # <<>> THEN <<" ">> \o s.status ELSE <<>>
    IN  [header |-> open \o stat \o <<"]">>, body |-> b]

\* The status main sets after a run that does not end the program.
StatusOf(c) ==
    IF c.err.kind = "ExitError" THEN StatusExit(c.err.code)
    ELSE IF CmdOutput(c) = <<>> THEN StatusNoOutput
    ELSE StatusNone

\* Fatal without the timeout branch.
FatalNoTimeout(c) == c.err.kind = "other"

\* Fatal with every error ending the program, a non-zero exit too.
FatalAnyError(c) == c.err.kind # "nil"

\* Whether main bails after a run: a timeout or another error.
Fatal(c) == c.err.kind \in {"DeadlineExceeded", "other"}

\* ShouldRedraw without the first-execution flag.
ShouldRedrawNoFirst(c, fst) == CmdHasChanged(c)

\* ShouldRedraw with the first-execution flag alone.
ShouldRedrawOnlyFirst(c, fst) == fst

\* main's test for printing a frame.
ShouldRedraw(c, fst) == CmdHasChanged(c) \/ fst

\* AfterUpdate without the continue: the command runs in every cycle.
AfterUpdateNoContinue(p) == "run"

\* Where main goes after paths.update(): on to cmd.run(), or, with
\* continue, back to the sleep.
AfterUpdate(p) == IF PathsHasChanged(p) THEN "run" ELSE "sleep"

-----------------------------------------------------------------------------
(* The program *)

\* The filesystems the program is started on: the file holds three bytes
\* or Filler and the directory is empty, holds one file or holds two.
StartFS ==
    {[n \in Names |->
        IF n = DirTok THEN IsDir
        ELSE IF n = FileTok THEN f
        ELSE IF n = ChildA THEN a ELSE b] :
     f \in {<<0, 2, 0>>, Filler}, a \in {Absent, <<>>, <<0, 2, 0>>},
     b \in {Absent, <<0, 2, 0>>}}

\* The filesystem the program is started on when it watches no path.
UnwatchedFS ==
    [n \in Names |-> IF n = DirTok THEN IsDir ELSE <<0, 2, 0>>]

Init ==
    /\ \E t \in Tried :
          /\ help = t.help
          /\ nargs = t.nargs
          /\ scrType = t.scrType
          /\ pathStr = t.pathStr
          /\ cmd = [name |-> t.name, buf |-> <<>>, prev |-> ZeroSum,
                    err |-> NilErr]
    /\ fs \in IF Fields(pathStr) = <<>> THEN {UnwatchedFS} ELSE StartFS
    /\ pc = "start"
    /\ exitCode = NotExited
    /\ paths = NilPaths
    /\ first = TRUE
    /\ screen = NoScreen
    /\ frame = NoFrame
    /\ wrote = FALSE
    /\ prevOut = <<>>
    /\ runs = 0
    /\ fed = NoFeed
    /\ fedPrev = NoFeed
    /\ setups = 0
    /\ teardowns = 0
    /\ ran = NotRun
    /\ files = NoChan
    /\ prod = Idle
    /\ sent = <<>>
    /\ got = <<>>
    /\ edited = 0
    /\ updates = 0

\* os.Exit(code)
Exit(code) ==
    /\ pc' = "exited"
    /\ exitCode' = code

\* main up to the loop: the flags, NewWatchPaths, the screen, its Setup.
Start ==
    /\ pc = "start"
    /\ IF help THEN Exit(0) /\ UNCHANGED <<paths, screen, setups>>
       ELSE IF nargs < 1 THEN Exit(1) /\ UNCHANGED <<paths, screen, setups>>
       ELSE IF BadPath(pathStr, fs)
            THEN Exit(1) /\ UNCHANGED <<paths, screen, setups>>
       ELSE IF scrType \notin screens
            THEN /\ Exit(2)
                 /\ paths' = NewWatchPaths(pathStr, fs)
                 /\ UNCHANGED <<screen, setups>>
       ELSE /\ paths' = NewWatchPaths(pathStr, fs)
            /\ screen' = [type |-> scrType, name |-> cmd.name,
                          status |-> <<>>]
            /\ setups' = setups + 1
            /\ pc' = "sleep"
            /\ UNCHANGED exitCode
    /\ UNCHANGED <<help, nargs, scrType, pathStr, fs, cmd, first, frame,
                   wrote, prevOut, runs, fed, fedPrev, teardowns, ran>>
    /\ UNCHANGED pipe

\* time.Sleep(delay): a cycle begins.
Sleep ==
    /\ pc = "sleep"
    /\ pc' = "update"
    /\ wrote' = FALSE
    /\ UNCHANGED <<help, nargs, scrType, pathStr, fs, exitCode, paths, cmd,
                   first, screen, frame, prevOut, runs, fed, fedPrev>>
    /\ UNCHANGED <<hooks, ran, pipe>>

\* paths.update()
Update ==
    /\ pc = "update"
    /\ IF paths.nil
       THEN /\ pc' = "check"
            /\ UNCHANGED <<exitCode, paths, fed, fedPrev>>
       ELSE IF UpdateFails(paths, fs)
       THEN /\ Exit(1)
            /\ UNCHANGED <<paths, fed, fedPrev>>
       ELSE /\ paths' = PathsUpdate(paths, fs)
            /\ fed' = ReadAll(fs, Enumerate(paths, fs))
            /\ fedPrev' = fed
            /\ pc' = "check"
            /\ UNCHANGED exitCode
    /\ UNCHANGED <<help, nargs, scrType, pathStr, fs, cmd, first, screen,
                   frame, wrote, prevOut, runs>>
    /\ UNCHANGED <<hooks, ran, pipe>>

\* if !paths.hasChanged() { continue }
Check ==
    /\ pc = "check"
    /\ pc' = AfterUpdate(paths)
    /\ UNCHANGED <<help, nargs, scrType, pathStr, fs, exitCode, paths, cmd,
                   first, screen, frame, wrote, prevOut, runs, fed, fedPrev>>
    /\ UNCHANGED <<hooks, ran, pipe>>

\* cmd.run()
Run ==
    /\ pc = "run"
    /\ \E out \in Prints(cmd.name), e \in Returns(cmd.name),
          ctxDone \in BOOLEAN :
          /\ cmd' = CmdRun(cmd, out, e, ctxDone)
          /\ ran' = [err |-> e, ctxDone |-> ctxDone]
    /\ prevOut' = cmd.buf
    /\ runs' = IF runs < 2 THEN runs + 1 ELSE runs
    /\ pc' = "classify"
    /\ UNCHANGED <<help, nargs, scrType, pathStr, fs, exitCode, paths,
                   first, screen, frame, wrote, fed, fedPrev>>
    /\ UNCHANGED <<hooks, pipe>>

\* The if-chain of main after cmd.run(): a status, or bail.
Classify ==
    /\ pc = "classify"
    /\ IF Fatal(cmd)
       THEN Exit(1) /\ UNCHANGED screen
       ELSE /\ screen' = [screen EXCEPT !.status = StatusOf(cmd)]
            /\ pc' = "redraw"
            /\ UNCHANGED exitCode
    /\ UNCHANGED <<help, nargs, scrType, pathStr, fs, paths, cmd, first,
                   frame, wrote, prevOut, runs, fed, fedPrev>>
    /\ UNCHANGED <<hooks, ran, pipe>>

\* The end of a cycle in a loop that sleeps only before its first cycle.
RedrawNoSleep ==
    /\ pc = "redraw"
    /\ IF ShouldRedraw(cmd, first)
       THEN frame' = ScreenWrite(screen, cmd.buf) /\ wrote' = TRUE
       ELSE UNCHANGED <<frame, wrote>>
    /\ first' = FALSE
    /\ pc' = "update"
    /\ UNCHANGED <<help, nargs, scrType, pathStr, fs, exitCode, paths, cmd,
                   screen, prevOut, runs, fed, fedPrev>>
    /\ UNCHANGED <<hooks, ran, pipe>>

\* if cmd.hasChanged() || first { fmt.Fprint(screen, ...) }; first = false
Redraw ==
    /\ pc = "redraw"
    /\ IF ShouldRedraw(cmd, first)
       THEN frame' = ScreenWrite(screen, cmd.buf) /\ wrote' = TRUE
       ELSE UNCHANGED <<frame, wrote>>
    /\ first' = FALSE
    /\ pc' = "sleep"
    /\ UNCHANGED <<help, nargs, scrType, pathStr, fs, exitCode, paths, cmd,
                   screen, prevOut, runs, fed, fedPrev>>
    /\ UNCHANGED <<hooks, ran, pipe>>

\* The goroutine that waits for os.Interrupt: Teardown, then os.Exit(0).
Interrupt ==
    /\ pc \notin {"start", "exited"}
    /\ teardowns' = teardowns + 1
    /\ Exit(0)
    /\ UNCHANGED <<help, nargs, scrType, pathStr, fs, paths, cmd, first,
                   screen, frame, wrote, prevOut, runs, fed, fedPrev>>
    /\ UNCHANGED <<setups, ran, pipe>>

\* The names update() reads: the watched files, directories and entries.
Watched(p) ==
    {p.files[i] : i \in 1..Len(p.files)}
        \cup {p.dirs[i] : i \in 1..Len(p.dirs)}
        \cup UNION {{Entries(p.dirs[i])[j] : j \in 1..Len(Entries(p.dirs[i]))}
                      : i \in 1..Len(p.dirs)}

\* The environment writes, creates or removes a watched file or directory.
EditFile ==
    /\ pc \notin {"start", "exited"}
    /\ \E n \in Watched(paths) :
          \E c \in Holds(n) :
             /\ c # fs[n]
             /\ fs' = [fs EXCEPT ![n] = c]
    /\ UNCHANGED <<help, nargs, scrType, pathStr, pc, exitCode, paths, cmd,
                   first, screen, frame, wrote, prevOut, runs, fed, fedPrev>>
    /\ UNCHANGED <<hooks, ran, pipe>>

Next ==
    \/ Start
    \/ Sleep
    \/ Update
    \/ Check
    \/ Run
    \/ Classify
    \/ Redraw
    \/ Interrupt
    \/ EditFile

Spec == Init /\ [][Next]_vars

-----------------------------------------------------------------------------
(* update() as a pipeline: the goroutine that sends paths, the loop that
   reads them *)

\* make(chan string, 1): the capacity of the channel files.
ChanCap == 1

\* The number of update() calls that are followed.
MaxUpdates == 2

\* The number of changes of the filesystem during one update().
MaxEdits == 1

\* What a name of the filesystem may hold while update() is followed: the
\* bytes 0 2 0 fit in the files in several ways.
PipeHolds(n) ==
    IF n = DirTok THEN {IsDir, Absent}
    ELSE IF n = FileTok THEN {<<0>>, <<0, 2>>, Absent}
    ELSE IF n = ChildA THEN {<<>>, <<2, 0>>, Absent}
    ELSE {<<0>>, Absent}

\* The values of -p that are followed: the file before and after the
\* directory.
PipePaths == {<<"f", " ", "d">>, <<"d", " ", "f">>}

\* The filesystems update() is first called on: every watched path exists.
PipeFS ==
    {[n \in Names |->
        IF n = DirTok THEN IsDir
        ELSE IF n = FileTok THEN <<0>>
        ELSE IF n = ChildA THEN a ELSE b] :
     a \in {<<2, 0>>, Absent}, b \in {<<0>>, Absent}}

\* The variables update() does not touch.
rest == <<help, nargs, scrType, pathStr, cmd, first, screen, frame, wrote,
          prevOut, runs, setups, teardowns, ran>>

\* main has reached its first paths.update() on the plain screen.
PipeInit ==
    /\ help = FALSE
    /\ nargs = 1
    /\ scrType = "plain"
    /\ pathStr \in PipePaths
    /\ fs \in PipeFS
    /\ cmd = [name |-> "echo", buf |-> <<>>, prev |-> ZeroSum,
              err |-> NilErr]
    /\ paths = NewWatchPaths(pathStr, fs)
    /\ screen = [type |-> "plain", name |-> "echo", status |-> <<>>]
    /\ pc = "update"
    /\ exitCode = NotExited
    /\ first = TRUE
    /\ frame = NoFrame
    /\ wrote = FALSE
    /\ prevOut = <<>>
    /\ runs = 0
    /\ fed = NoFeed
    /\ fedPrev = NoFeed
    /\ setups = 1
    /\ teardowns = 0
    /\ ran = NotRun
    /\ files = NoChan
    /\ prod = Idle
    /\ sent = <<>>
    /\ got = <<>>
    /\ edited = 0
    /\ updates = 0

\* update() up to the go statement: prev, Reset(), the channel.
Begin ==
    /\ pc = "update"
    /\ updates < MaxUpdates
    /\ paths' = [paths EXCEPT !.prev = paths.hash, !.hash = AdlerInit]
    /\ files' = NoChan
    /\ prod' = [pc |-> "files", dirs |-> paths.dirs, names |-> paths.files,
                held |-> <<>>]
    /\ sent' = <<>>
    /\ got' = <<>>
    /\ edited' = 0
    /\ fed' = <<>>
    /\ fedPrev' = fed
    /\ updates' = updates + 1
    /\ pc' = "range"
    /\ UNCHANGED <<fs, exitCode, rest>>

\* for _, f := range p.files: the goroutine takes the next explicit file.
NextFile ==
    /\ pc = "range"
    /\ prod.pc = "files"
    /\ prod.held = <<>>
    /\ prod.names # <<>>
    /\ prod' = [prod EXCEPT !.held = <<Head(prod.names)>>,
                            !.names = Tail(prod.names)]
    /\ UNCHANGED <<fs, pc, exitCode, paths, fed, fedPrev, files, sent, got,
                   edited, updates, rest>>

\* The entries of dir that exist, in the order filepath.Walk visits them.
Present(f, dir) ==
    LET Exists(n) == Stat(f, n) # "err"
    IN  SelectSeq(Entries(dir), Exists)

\* filepath.Walk(dir, ...) on the next directory: the walk function is
\* called with an error if dir is gone, and the names in dir are read if not.
WalkRoot ==
    /\ pc = "range"
    /\ prod.pc \in {"files", "walk"}
    /\ prod.held = <<>>
    /\ prod.names = <<>>
    /\ prod.dirs # <<>>
    /\ prod' = IF Stat(fs, Head(prod.dirs)) # "dir"
               THEN [prod EXCEPT !.pc = "bail", !.dirs = Tail(prod.dirs)]
               ELSE [pc |-> "walk", dirs |-> Tail(prod.dirs),
                     names |-> Present(fs, Head(prod.dirs)), held |-> <<>>]
    /\ UNCHANGED <<fs, pc, exitCode, paths, fed, fedPrev, files, sent, got,
                   edited, updates, rest>>

\* The walk reaches the next name of the directory: the walk function is
\* called with an error if the file is gone, and sends the path if not.
WalkEntry ==
    /\ pc = "range"
    /\ prod.pc = "walk"
    /\ prod.held = <<>>
    /\ prod.names # <<>>
    /\ prod' = IF Stat(fs, Head(prod.names)) = "err"
               THEN [prod EXCEPT !.pc = "bail", !.names = Tail(prod.names)]
               ELSE [prod EXCEPT !.held = <<Head(prod.names)>>,
                                 !.names = Tail(prod.names)]
    /\ UNCHANGED <<fs, pc, exitCode, paths, fed, fedPrev, files, sent, got,
                   edited, updates, rest>>

\* A send that drops the path when the channel is full.
SendNonBlocking ==
    /\ pc = "range"
    /\ prod.held # <<>>
    /\ IF Len(files.buf) < ChanCap
       THEN /\ files' = [files EXCEPT !.buf = Append(files.buf, prod.held[1])]
            /\ sent' = Append(sent, prod.held[1])
       ELSE UNCHANGED <<files, sent>>
    /\ prod' = [prod EXCEPT !.held = <<>>]
    /\ UNCHANGED <<fs, pc, exitCode, paths, fed, fedPrev, got, edited,
                   updates, rest>>

\* files <- path: the send waits while the channel is full.
Send ==
    /\ pc = "range"
    /\ prod.held # <<>>
    /\ Len(files.buf) < ChanCap
    /\ files' = [files EXCEPT !.buf = Append(files.buf, prod.held[1])]
    /\ sent' = Append(sent, prod.held[1])
    /\ prod' = [prod EXCEPT !.held = <<>>]
    /\ UNCHANGED <<fs, pc, exitCode, paths, fed, fedPrev, got, edited,
                   updates, rest>>

\* A goroutine that returns without close(files).
ReturnNoClose ==
    /\ pc = "range"
    /\ prod.pc \in {"files", "walk"}
    /\ prod.held = <<>>
    /\ prod.names = <<>>
    /\ prod.dirs = <<>>
    /\ prod' = [prod EXCEPT !.pc = "done"]
    /\ UNCHANGED <<fs, pc, exitCode, paths, fed, fedPrev, files, sent, got,
                   edited, updates, rest>>

\* close(files), after the last directory.
Close ==
    /\ pc = "range"
    /\ prod.pc \in {"files", "walk"}
    /\ prod.held = <<>>
    /\ prod.names = <<>>
    /\ prod.dirs = <<>>
    /\ files' = [files EXCEPT !.closed = TRUE]
    /\ prod' = [prod EXCEPT !.pc = "done"]
    /\ UNCHANGED <<fs, pc, exitCode, paths, fed, fedPrev, sent, got, edited,
                   updates, rest>>

\* A walk function that reports the error and goes on with the walk.
WalkWarn ==
    /\ pc = "range"
    /\ prod.pc = "bail"
    /\ prod' = [prod EXCEPT !.pc = "walk"]
    /\ UNCHANGED <<fs, pc, exitCode, paths, fed, fedPrev, files, sent, got,
                   edited, updates, rest>>

\* bail("error walking ...") in the goroutine: the message, then os.Exit(1).
WalkBail ==
    /\ pc = "range"
    /\ prod.pc = "bail"
    /\ Exit(1)
    /\ UNCHANGED <<fs, paths, fed, fedPrev, files, prod, sent, got, edited,
                   updates, rest>>

\* for f := range files: the loop receives the next path.
Receive ==
    /\ pc = "range"
    /\ Len(got) = Len(fed)
    /\ files.buf # <<>>
    /\ got' = Append(got, Head(files.buf))
    /\ files' = [files EXCEPT !.buf = Tail(files.buf)]
    /\ UNCHANGED <<fs, pc, exitCode, paths, fed, fedPrev, prod, sent, edited,
                   updates, rest>>

\* A loop body that hashes each file on its own.
ReadResetting ==
    /\ pc = "range"
    /\ Len(got) > Len(fed)
    /\ IF Stat(fs, got[Len(got)]) # "file"
       THEN Exit(1) /\ UNCHANGED <<paths, fed>>
       ELSE /\ paths' = [paths EXCEPT
                           !.hash = AdlerWrite(AdlerInit, fs[got[Len(got)]])]
            /\ fed' = Append(fed, fs[got[Len(got)]])
            /\ UNCHANGED <<pc, exitCode>>
    /\ UNCHANGED <<fs, fedPrev, files, prod, sent, got, edited, updates,
                   rest>>

\* The body of the loop: os.ReadFile(f), then bail or p.hash.Write(data).
Read ==
    /\ pc = "range"
    /\ Len(got) > Len(fed)
    /\ IF Stat(fs, got[Len(got)]) # "file"
       THEN Exit(1) /\ UNCHANGED <<paths, fed>>
       ELSE /\ paths' = [paths EXCEPT
                           !.hash = AdlerWrite(paths.hash, fs[got[Len(got)]])]
            /\ fed' = Append(fed, fs[got[Len(got)]])
            /\ UNCHANGED <<pc, exitCode>>
    /\ UNCHANGED <<fs, fedPrev, files, prod, sent, got, edited, updates,
                   rest>>

\* The loop ends when the channel is closed and empty: update() returns.
Return ==
    /\ pc = "range"
    /\ Len(got) = Len(fed)
    /\ files.buf = <<>>
    /\ files.closed
    /\ pc' = "check"
    /\ UNCHANGED <<fs, exitCode, paths, fed, fedPrev, files, prod, sent, got,
                   edited, updates, rest>>

\* The rest of the cycle and the sleep of the next, which leave the watcher
\* alone.
Again ==
    /\ pc = "check"
    /\ updates < MaxUpdates
    /\ pc' = "update"
    /\ UNCHANGED <<fs, exitCode, paths, fed, fedPrev, files, prod, sent, got,
                   edited, updates, rest>>

\* The environment writes, creates or removes a watched file or directory,
\* between two calls of update() or during one.
PipeEdit ==
    /\ pc \in {"update", "range"}
    /\ pc = "range" => edited < MaxEdits
    /\ \E n \in Watched(paths) :
          \E c \in PipeHolds(n) :
             /\ c # fs[n]
             /\ fs' = [fs EXCEPT ![n] = c]
    /\ edited' = IF pc = "range" THEN edited + 1 ELSE edited
    /\ UNCHANGED <<pc, exitCode, paths, fed, fedPrev, files, prod, sent, got,
                   updates, rest>>

\* The steps of the goroutine and the steps of the loop of update().
Producer == NextFile \/ WalkRoot \/ WalkEntry \/ Send \/ Close \/ WalkBail
Consumer == Receive \/ Read \/ Return

PipeNext ==
    \/ Begin
    \/ NextFile
    \/ WalkRoot
    \/ WalkEntry
    \/ Send
    \/ Close
    \/ WalkBail
    \/ Receive
    \/ Read
    \/ Return
    \/ Again
    \/ PipeEdit

PipeSpec == PipeInit /\ [][PipeNext]_vars

\* The scheduler of Go runs every goroutine that can run.
PipeLive ==
    /\ PipeInit
    /\ [][PipeNext]_vars
    /\ WF_vars(Producer)
    /\ WF_vars(Consumer)

-----------------------------------------------------------------------------
(* Properties *)

\* The redraw rule stated with the history variable runs instead of first:
\* the output changed, or this is the first cycle that ran the command.
FrameDue == CmdHasChanged(cmd) \/ runs = 1

\* C1: a cycle whose paths.update() finds a configured watcher unchanged ends
\* without running the command, setting a status or printing a frame: the
\* sleep and the update leave cmd, first, the screen and the frame as they
\* were, and so does the step after a check that finds no change, which
\* never leads to cmd.run().
C1_SkippedCycle ==
    [][/\ pc \in {"sleep", "update"}
          => UNCHANGED <<cmd, first, screen, frame, runs>>
       /\ (pc = "check" /\ ~paths.nil /\ ~PathsHasChanged(paths))
          => /\ pc' # "run"
             /\ ~wrote /\ ~wrote'
             /\ UNCHANGED <<cmd, first, screen, frame, runs>>]_vars

\* A cycle was skipped after the command had run and printed something.
C1_Witness ==
    /\ pc = "sleep"
    /\ ~paths.nil
    /\ ~PathsHasChanged(paths)
    /\ runs > 0
    /\ cmd.buf # <<>>
    /\ frame # NoFrame

\* C2: the step that ends an executed cycle prints a frame holding the whole
\* buffer if the output changed or the cycle is the first that ran the
\* command, and prints nothing otherwise.
C2_RedrawRule ==
    [][(pc = "redraw" /\ pc' = "sleep")
          => IF FrameDue
             THEN wrote' /\ frame'.body = cmd.buf
             ELSE ~wrote' /\ frame' = frame]_vars

\* The first cycle that ran the command printed a frame although the output
\* (nothing) had the digest of the empty buffer.
C2_Witness ==
    /\ pc = "sleep"
    /\ runs = 1
    /\ wrote
    /\ ~CmdHasChanged(cmd)
    /\ frame.body = cmd.buf

\* C3: after a run, hasChanged() tells whether the digest of the output of
\* this run differs from the digest of the output of the run before it
\* (of the empty buffer, for the first run); a second or later run that
\* captures the very bytes of the run before it leaves hasChanged() false
\* and its cycle prints no frame.
C3_ConsecutiveOutputs ==
    [][/\ pc' \in {"classify", "redraw"}
          => (CmdHasChanged(cmd') <=> Checksum(cmd'.buf) # Checksum(prevOut'))
       /\ (pc = "redraw" /\ pc' = "sleep" /\ runs = 2 /\ cmd.buf = prevOut)
          => ~CmdHasChanged(cmd) /\ ~wrote' /\ frame' = frame]_vars

\* Two runs in a row printed the same non-empty bytes, and the cycle of the
\* second ended without a frame.
C3_Witness ==
    /\ pc = "sleep"
    /\ runs = 2
    /\ cmd.buf = prevOut
    /\ cmd.buf # <<>>
    /\ ~wrote

\* A step of the environment: the interrupt or a change of the filesystem.
\* Every other step is a step of main.
Env == Interrupt \/ EditFile

\* C4 as it is claimed: after a second or later run, hasChanged() tells
\* whether the snapshot taken at the start of this run differs from the
\* snapshot taken at the start of the run before it.
C4_AsClaimed ==
    [][(pc = "run" /\ runs >= 1 /\ pc' = "classify")
          => (CmdHasChanged(cmd') <=> cmd'.prev # cmd.prev)]_vars

\* C4, amended: after a run, hasChanged() tells whether the snapshot taken
\* at the start of this run (the digest of the buffer the run cleared)
\* differs from the digest of the buffer the run has captured.
C4_SnapshotAgainstBuffer ==
    [][(pc = "run" /\ pc' = "classify")
          => /\ cmd'.prev = Checksum(cmd.buf)
             /\ CmdHasChanged(cmd') <=> Checksum(cmd.buf) # Checksum(cmd'.buf)
      ]_vars

\* A second or later run captured bytes with the digest of the non-empty
\* output before it: hasChanged() is false.
C4_Witness ==
    /\ pc = "classify"
    /\ runs = 2
    /\ prevOut # <<>>
    /\ cmd.prev = Checksum(cmd.buf)
    /\ ~CmdHasChanged(cmd)

\* C5 as it is claimed: after the first run, hasChanged() is true exactly
\* when the captured output is not empty.
C5_AsClaimed ==
    (pc \in {"classify", "redraw"} /\ runs = 1)
        => (CmdHasChanged(cmd) <=> cmd.buf # <<>>)

\* C5, amended: the first run records the digest of the empty buffer, not
\* the zero value; after it hasChanged() tells whether the digest of the
\* captured output differs from that digest, so it is false for an empty
\* output and true for a non-empty one of fewer than 257 bytes.
C5_FirstRun ==
    (pc \in {"classify", "redraw"} /\ runs = 1)
        => /\ cmd.prev = Checksum(<<>>)
           /\ cmd.prev # ZeroSum
           /\ CmdHasChanged(cmd) <=> Checksum(cmd.buf) # Checksum(<<>>)
           /\ cmd.buf = <<>> => ~CmdHasChanged(cmd)
           /\ (cmd.buf # <<>> /\ Len(cmd.buf) < Len(Filler))
                 => CmdHasChanged(cmd)

\* The first run captured a non-empty output and hasChanged() is true.
C5_Witness ==
    /\ pc = "classify"
    /\ runs = 1
    /\ cmd.buf # <<>>
    /\ CmdHasChanged(cmd)

\* C6: when the deadline has passed, the next step of main ends the program
\* with exit code 1 and leaves the status, the frame and the command as they
\* were; and nothing happens after the program has ended.
C6_TimeoutIsFatal ==
    [][/\ (pc = "classify" /\ cmd.err.kind = "DeadlineExceeded" /\ ~Env)
          => /\ pc' = "exited"
             /\ exitCode' = 1
             /\ UNCHANGED <<cmd, first, screen, frame, wrote, runs>>
       /\ pc # "exited"]_vars

\* A second or later run timed out and the program ended with code 1; the
\* cycle printed no frame.
C6_Witness ==
    /\ pc = "exited"
    /\ exitCode = 1
    /\ cmd.err.kind = "DeadlineExceeded"
    /\ runs = 2
    /\ ~wrote

\* C7: after a run that ended with exit code N, the next step of main sets
\* a status that contains N and does not end the program; the step after it
\* applies the redraw rule and leads to the sleep of the next cycle.
C7_ExitCodeContinues ==
    [][/\ (pc = "classify" /\ cmd.err.kind = "ExitError" /\ ~Env)
          => /\ pc' = "redraw"
             /\ exitCode' = NotExited
             /\ screen'.status = <<"exit code ", ToString(cmd.err.code)>>
       /\ (pc = "redraw" /\ cmd.err.kind = "ExitError" /\ ~Env)
          => /\ pc' = "sleep"
             /\ exitCode' = NotExited
             /\ \E i \in 1..Len(screen.status) :
                   screen.status[i] = ToString(cmd.err.code)
             /\ IF FrameDue
                THEN /\ wrote'
                     /\ frame'.body = cmd.buf
                     /\ \E i \in 1..Len(frame'.header) :
                           frame'.header[i] = ToString(cmd.err.code)
                ELSE ~wrote' /\ frame' = frame]_vars

\* The cycle after a run that ended with exit code 3 has reached cmd.run().
C7_Witness ==
    /\ pc = "run"
    /\ cmd.err = ExitError(3)
    /\ screen.status = <<"exit code ", "3">>

\* The bytes of a list of contents, one after the other.
RECURSIVE Concat(_)
Concat(datas) ==
    IF datas = <<>> THEN <<>> ELSE Head(datas) \o Concat(Tail(datas))

\* Whether an update() that read the contents x fed any byte.
DataFed(x) == \E i \in 1..Len(x) : x[i] # <<>>

\* The latest update() read the same files as the one before it and found
\* other contents in one of them.
Edited == Len(fed) = Len(fedPrev) /\ fed # fedPrev

\* C8 as it is claimed: after a second or later update() of a configured
\* watcher, hasChanged() is false when the update read what the one before
\* it read, and true when a watched file's contents were edited in between.
C8_AsClaimed ==
    (pc = "check" /\ ~paths.nil /\ fedPrev # NoFeed)
        => /\ fed = fedPrev => ~PathsHasChanged(paths)
           /\ Edited => PathsHasChanged(paths)

\* C8, amended: after a second or later update() of a configured watcher,
\* hasChanged() tells whether the digest of the contents this update read
\* differs from the digest of those the update before it read; it is false
\* when nothing was edited in between.
C8_DigestOfFeeds ==
    (pc = "check" /\ ~paths.nil /\ fedPrev # NoFeed)
        => /\ PathsHasChanged(paths)
                <=> Checksum(Concat(fed)) # Checksum(Concat(fedPrev))
           /\ fed = fedPrev => ~PathsHasChanged(paths)

\* An edit of a watched file between two updates was detected.
C8_Witness ==
    /\ pc = "check"
    /\ ~paths.nil
    /\ fedPrev # NoFeed
    /\ Edited
    /\ PathsHasChanged(paths)

\* C9: with no -p the watcher is nil, update() changes nothing,
\* hasChanged() is true and every check leads to cmd.run().
C9_NilWatcher ==
    [][(pathStr = <<>> /\ pc # "start" /\ ~Env)
          => /\ paths.nil
             /\ PathsHasChanged(paths)
             /\ pc = "update" => (pc' = "check" /\ UNCHANGED paths)
             /\ pc = "check" => pc' = "run"]_vars

\* Without watched paths a second cycle has reached cmd.run().
C9_Witness ==
    /\ pathStr = <<>>
    /\ paths.nil
    /\ pc = "run"
    /\ runs >= 1

\* C10 as it is claimed: after the first update() of a configured watcher,
\* hasChanged() is true exactly when some file data was fed.
C10_AsClaimed ==
    (pc = "check" /\ ~paths.nil /\ fedPrev = NoFeed)
        => (PathsHasChanged(paths) <=> DataFed(fed))

\* C10, amended: after the first update() of a configured watcher,
\* hasChanged() tells whether the digest of the data fed differs from the
\* digest of no data: it is false when nothing was fed and true when fewer
\* than 257 bytes were.  While the updates find nothing to feed, from the
\* first one on, hasChanged() is false and the command is not run.
C10_FirstUpdate ==
    [][/\ (pc' = "check" /\ ~paths'.nil /\ fedPrev' = NoFeed)
          => /\ PathsHasChanged(paths')
                  <=> Checksum(Concat(fed')) # Checksum(<<>>)
             /\ ~DataFed(fed') => ~PathsHasChanged(paths')
             /\ (DataFed(fed') /\ Len(Concat(fed')) < Len(Filler))
                   => PathsHasChanged(paths')
       /\ (/\ pc = "check"
           /\ ~paths.nil
           /\ ~DataFed(fed)
           /\ fedPrev = NoFeed \/ ~DataFed(fedPrev))
          => /\ ~PathsHasChanged(paths)
             /\ pc' # "run"
             /\ runs' = runs]_vars

\* A watched directory was empty at the first two updates and the command
\* has not run.
C10_Witness ==
    /\ pc = "sleep"
    /\ ~paths.nil
    /\ paths.dirs # <<>>
    /\ fed = <<>>
    /\ fedPrev = <<>>
    /\ runs = 0

\* C11 as it is claimed: screen.Setup() is called exactly once before the
\* first cycle, and screen.Teardown() exactly once on every shutdown after
\* it, whether by the interrupt or by a fatal error.
C11_AsClaimed ==
    /\ pc \notin {"start", "exited"} => (setups = 1 /\ teardowns = 0)
    /\ (pc = "exited" /\ setups = 1) => teardowns = 1
    /\ setups <= 1
    /\ teardowns <= 1

\* The display backends of the command-line interface: -s <plain|vt100>.
Backends == {"plain", "vt100"}

C13_Precedence ==
    [][(pc = "classify" /\ ~Env) =>
          IF ran.ctxDone
          THEN /\ pc' = "exited"
               /\ exitCode' = 1
               /\ UNCHANGED <<screen, frame>>
          ELSE IF ran.err.kind = "ExitError"
          THEN /\ pc' = "redraw"
               /\ exitCode' = NotExited
               /\ screen'.status = <<"exit code ", ToString(ran.err.code)>>
          ELSE IF ran.err.kind # "nil"
          THEN /\ pc' = "exited"
               /\ exitCode' = 1
               /\ UNCHANGED <<screen, frame>>
          ELSE /\ pc' = "redraw"
               /\ exitCode' = NotExited
               /\ screen'.status = IF TrimSpace(cmd.buf) = <<>>
                                    THEN <<"no output">> ELSE <<>>]_vars

\* The deadline passed in a run whose process exited with code 3 after it
\* had printed something: the program has ended with exit code 1 and the
\* status was not set.
C13_Witness ==
    /\ pc = "exited"
    /\ exitCode = 1
    /\ ran.ctxDone
    /\ ran.err = ExitError(3)
    /\ cmd.buf # <<>>
    /\ screen.status # StatusExit(3)

\* A step that brings main to the position l.
Enters(l) == pc' = l /\ pc # l

\* C14: main enters the loop at the sleep, and every cycle begins with it:
\* paths.update() is entered only from the sleep, the check only from the
\* update, cmd.run() only from the check, the classification only from the
\* run, the frame write only from the classification, and the next sleep
\* only from a check that found no change or from the frame write.  The
\* watcher changes only in update(), the command only in run(), the status
\* only in the classification and the frame only in the step after it, so
\* no cycle's update starts before the cycle before it has ended.
C14_CycleOrder ==
    [][/\ pc = "start" => pc' \in {"start", "sleep", "exited"}
       /\ Enters("update") => pc = "sleep"
       /\ Enters("check") => pc = "update"
       /\ Enters("run") => pc = "check"
       /\ Enters("classify") => pc = "run"
       /\ Enters("redraw") => pc = "classify"
       /\ Enters("sleep") => pc \in {"start", "check", "redraw"}
       /\ (pc # "start" /\ paths' # paths) => (pc = "update" /\ pc' = "check")
       /\ cmd' # cmd => (pc = "run" /\ pc' = "classify")
       /\ (pc # "start" /\ screen' # screen)
             => (pc = "classify" /\ pc' = "redraw")
       /\ (frame' # frame \/ first' # first)
             => (pc = "redraw" /\ pc' = "sleep")]_vars

\* The third cycle of a configured watcher has run the command for the
\* second time and is about to write its frame.
C14_Witness ==
    /\ pc = "redraw"
    /\ runs = 2
    /\ ~paths.nil
    /\ fedPrev # NoFeed
    /\ fed # fedPrev

\* The walk of update()'s goroutine is about to meet an error: the next
\* directory is gone, or the next name of the directory it walks is.
WalkFails ==
    /\ prod.held = <<>>
    /\ \/ /\ prod.pc \in {"files", "walk"}
          /\ prod.names = <<>>
          /\ prod.dirs # <<>>
          /\ Stat(fs, Head(prod.dirs)) # "dir"
       \/ /\ prod.pc = "walk"
          /\ prod.names # <<>>
          /\ Stat(fs, Head(prod.names)) = "err"

\* The loop of update() has received a path that cannot be read.
ReadFails ==
    /\ Len(got) > Len(fed)
    /\ Stat(fs, got[Len(got)]) # "file"

\* C15: a step of the walk that meets an error leads to bail; from then on
\* the goroutine neither sends nor closes the channel, main stays in its
\* loop, and the program ends with exit code 1.  While the loop holds a path
\* that cannot be read, nothing is fed and main's only step is the exit with
\* code 1.  So update() returns only after a goroutine that met no error has
\* closed the channel and every path received has been read, and the program
\* ends only on such an error; and an error of the walk does lead to the
\* end of the program.
C15_NoPartialFingerprint ==
    /\ [][/\ (pc = "range" /\ WalkFails /\ prod' # prod)
               => prod'.pc = "bail"
          /\ (pc = "range" /\ prod.pc = "bail")
               => /\ prod'.pc = "bail"
                  /\ sent' = sent
                  /\ ~files'.closed
                  /\ pc' \in {"range", "exited"}
                  /\ pc' = "exited" => exitCode' = 1
          /\ (pc = "range" /\ ReadFails)
               => /\ UNCHANGED <<paths, fed>>
                  /\ pc' \in {"range", "exited"}
                  /\ pc' = "exited" => exitCode' = 1
          /\ Enters("check")
               => /\ prod.pc = "done"
                  /\ sent = got
                  /\ Len(fed) = Len(got)
          /\ Enters("exited")
               => /\ prod.pc = "bail" \/ ReadFails
                  /\ exitCode' = 1
          /\ pc = "exited" => UNCHANGED vars]_vars
    /\ (prod.pc = "bail") ~> (pc = "exited" /\ exitCode = 1)

\* A name of the walked directory was gone when the walk reached it, after
\* the loop had read and fed a file: the program has ended with exit code 1.
C15_Witness ==
    /\ pc = "exited"
    /\ exitCode = 1
    /\ prod.pc = "bail"
    /\ fed # <<>>
    /\ paths.hash # AdlerInit

\* C16: every update() that is begun returns, unless an error ends the
\* program: it never stays in its loop for ever.  While it is in the loop
\* the goroutine or the loop can take a step, and the channel holds at most
\* ChanCap paths.  The goroutine closes the channel only when it has nothing
\* left to send, and update() returns only when the goroutine is done and
\* every path sent has been received and read; so no goroutine of an
\* earlier update() is left when update() is called again.
C16_UpdateReturns ==
    /\ (pc = "range") ~> (pc \in {"check", "exited"})
    /\ [](pc = "range" => ENABLED (Producer \/ Consumer))
    /\ [](Len(files.buf) <= ChanCap)
    /\ [](pc \in {"update", "check"} => prod.pc \in {"idle", "done"})
    /\ [](pc = "check" => /\ files.closed
                          /\ files.buf = <<>>
                          /\ prod.held = <<>>
                          /\ sent = got
                          /\ Len(fed) = Len(got))
    /\ [][/\ (files'.closed /\ ~files.closed)
               => /\ prod.held = <<>>
                  /\ prod.names = <<>>
                  /\ prod.dirs = <<>>
                  /\ sent' = sent
          /\ files.closed => (files'.closed \/ Enters("range"))
          /\ (files.closed /\ pc = "range") => sent' = sent]_vars

\* The second update() has returned after three paths went through the
\* channel while nothing changed in the filesystem.
C16_Witness ==
    /\ pc = "check"
    /\ updates = 2
    /\ prod.pc = "done"
    /\ files.closed
    /\ Len(got) = 3
    /\ edited = 0

\* Every path update() may read, in the order of the enumeration: the
\* explicit files, then the entries of each directory.
RECURSIVE EntriesAll(_)
EntriesAll(dirs) ==
    IF dirs = <<>> THEN <<>> ELSE Entries(Head(dirs)) \o EntriesAll(Tail(dirs))

Order(p) == p.files \o EntriesAll(p.dirs)

\* Whether the list x holds paths of the list y, each at most once, in the
\* order of y.
InOrder(x, y) ==
    \E pos \in [1..Len(x) -> 1..Len(y)] :
        /\ \A i \in 1..Len(x) : y[pos[i]] = x[i]
        /\ \A i \in 1..Len(x) : \A j \in 1..Len(x) : i < j => pos[i] < pos[j]

\* C17: however the goroutine and the loop of update() are interleaved, the
\* paths received are the paths sent, in the order they were sent, without
\* loss or repetition, and the paths sent follow the order of the
\* enumeration, each at most once.  When the filesystem does not change
\* during the call, update() returns having read exactly the enumerated
\* files, each once and in order (the explicit files, then the walk of each
\* directory), and its result is that of the enumeration fed in one go.
C17_ScheduleIndependent ==
    pc \in {"range", "check"}
        => /\ sent = got \o files.buf
           /\ InOrder(sent \o prod.held, Order(paths))
           /\ Len(fed) \in {Len(got), Len(got) - 1}
           /\ edited = 0
                => /\ fed = ReadAll(fs, SubSeq(got, 1, Len(fed)))
                   /\ paths.hash = Feed(AdlerInit, fed)
           /\ (pc = "check" /\ edited = 0)
                => /\ got = Enumerate(paths, fs)
                   /\ fed = ReadAll(fs, Enumerate(paths, fs))
                   /\ paths = PathsUpdate([paths EXCEPT !.hash = paths.prev],
                                          fs)

\* update() has returned, with nothing changed during the call, after it
\* read the explicit file, configured after the directory, and then the two
\* files of the directory.
C17_Witness ==
    /\ pc = "check"
    /\ edited = 0
    /\ pathStr = <<"d", " ", "f">>
    /\ got = <<FileTok, ChildA, ChildB>>
    /\ Len(fed) = 3

\* C18: the accumulator of update() holds the digest of the concatenation
\* of the contents read so far, as adler32.Checksum computes it in one go;
\* when update() returns from a call during which nothing changed, that is
\* the digest of the concatenation of all watched files in the order of the
\* enumeration; and two updates in a row that read the same bytes, however
\* they are divided into files, leave hasChanged() false.
C18_Concatenation ==
    pc \in {"range", "check"}
        => /\ paths.hash = Checksum(Concat(fed))
           /\ fedPrev # NoFeed => paths.prev = Checksum(Concat(fedPrev))
           /\ (pc = "check" /\ edited = 0)
                => paths.hash
                     = Checksum(Concat(ReadAll(fs, Enumerate(paths, fs))))
           /\ (pc = "check" /\ fedPrev # NoFeed
                            /\ Concat(fed) = Concat(fedPrev))
                => ~PathsHasChanged(paths)

\* Two updates in a row read the bytes 0 2 0, the first as 0 and 2 0, the
\* second as 0 2 and 0: hasChanged() is false.
C18_Witness ==
    /\ pc = "check"
    /\ fedPrev = << <<0>>, <<2, 0>> >>
    /\ fed = << <<0, 2>>, <<0>> >>
    /\ ~PathsHasChanged(paths)

\* C19: once the command has run, whenever main is between the frame write
\* of an executed cycle and the next run() (in the sleep, the update or the
\* check of any later cycle, skipped or not), a frame has been written and
\* the bytes of the latest frame have the digest of the command's buffer.
C19_FrameFollowsOutput ==
    (runs >= 1 /\ pc \in {"sleep", "update", "check", "run"})
        => /\ frame # NoFrame
           /\ Checksum(frame.body) = Checksum(cmd.buf)

\* After two executed cycles the latest frame holds other bytes than the
\* buffer (nothing, against the 257 bytes of Filler) with the same digest.
C19_Witness ==
    /\ pc = "sleep"
    /\ runs = 2
    /\ frame # NoFrame
    /\ frame.body # cmd.buf
    /\ Checksum(frame.body) = Checksum(cmd.buf)

\* The status a frame shows: the pieces of its header between the time and
\* the closing bracket, after a blank.
Shown(fr) ==
    LET t == CHOOSE i \in 1..Len(fr.header) : fr.header[i] = Timestamp
    IN  SubSeq(fr.header, t + 2, Len(fr.header) - 1)

\* The status of a cycle whose run did not end the program: the exit code,
\* "no output" or nothing.
CycleStatus ==
    IF ran.err.kind = "ExitError"
    THEN <<"exit code ", ToString(ran.err.code)>>
    ELSE IF TrimSpace(cmd.buf) = <<>> THEN <<"no output">> ELSE <<>>

\* C20: when main is about to write a frame, the status is the one set from
\* this cycle's run; a frame is written in that step only and shows that
\* status with the bytes of this run.  A second or later run that captured
\* the bytes of the run before it writes no frame, so the frame on display
\* and the status it shows stay as they were, whatever status the cycle
\* set.
C20_FrameStatus ==
    [][/\ pc = "redraw" => screen.status = CycleStatus
       /\ frame' # frame
            => /\ pc = "redraw"
               /\ wrote'
               /\ frame'.body = cmd.buf
               /\ Shown(frame') = CycleStatus
       /\ (pc = "redraw" /\ wrote')
            => /\ frame'.body = cmd.buf
               /\ Shown(frame') = CycleStatus
       /\ (pc = "redraw" /\ runs = 2 /\ cmd.buf = prevOut /\ ~Env)
            => /\ ~wrote'
               /\ frame' = frame
               /\ screen' = screen]_vars

\* A run ended with exit code 3 and the output of the run before it, which
\* had succeeded: the status is set and the frame on display, written
\* earlier, shows no status.
C20_Witness ==
    /\ pc = "sleep"
    /\ runs = 2
    /\ cmd.err = ExitError(3)
    /\ cmd.buf = prevOut
    /\ cmd.buf # <<>>
    /\ screen.status = StatusExit(3)
    /\ ~wrote
    /\ frame # NoFrame
    /\ Shown(frame) = <<>>

====
